---- MODULE Spec2Model ----
(***************************************************************************)
(* The spanning-tree Metropolis sampler of models.py: the base graph, the  *)
(* minimum spanning tree that seeds the chain, the two energies (LDST and  *)
(* BDST), the edge-swap proposal STMetropolis.propose with its resampling  *)
(* loop, its reversal STMetropolis.reject, and the sampling loop that      *)
(* drives them (mod_mc.sample), called once (ld_maze) or once per cooling  *)
(* phase (anneal_ldst, anneal_bdst).                                       *)
(*                                                                         *)
(* Nodes are numbered from 1.  A base graph is a record [nodes, edges]     *)
(* whose edges are pairs <<u, v>> with u < v, in the orientation           *)
(* G.edges() lists them.  The tree T is the set of its edges, each an      *)
(* unordered pair {u, v}; its node set is that of the base graph and never *)
(* changes (add_edge and remove_edge keep the nodes).                      *)
(***************************************************************************)
EXTENDS Integers, FiniteSets, Sequences, TLC

\* Base graphs other than the grid have 1..MaxNodes nodes.
MaxNodes == 3
\* sample(iters, ...) is called with iters = MaxIters.
MaxIters == 2
\* anneal_ldst and anneal_bdst are called with phases = MaxPhases.
MaxPhases == 2
\* The acceptance draw log(random()) is one of -MaxDraw/2 .. -1/2, or
\* minus infinity.
MaxDraw == 41

\* The shape handed to my_grid_graph in the endpoint scenario.
GridShape == <<3, 3>>
\* Edge weights: random.random() in my_grid_graph; two classes are enough
\* for every spanning forest to be the minimum one for some weights.
Weights == {0, 1}

VARIABLES
    G,          \* T.base_graph
    kind,       \* "ldst" or "bdst": which stochastic was built
    d,          \* T.d, the degree bound (ldst)
    root,       \* T.root (bdst)
    k,          \* T.k, the depth bound (bdst)
    beta,       \* inverse temperature
    iters,      \* sample(iters, burn)
    burn,
    driver,     \* "sample": one call of sample; "anneal": one call per phase
    phases,     \* the number of cooling phases
    phase,      \* i, the index of the cooling phase
    T,          \* self.stochastic.value: the edges of the working tree
    u_new, v_new, u_old, v_old, path,    \* the attributes propose stores on T
    logp,       \* energy of the current tree, read before propose
    pc,         \* position of the sampler
    iter,       \* iterations completed
    tallied,    \* samples recorded in the trace
    proposals,  \* calls of propose so far
    decisions,  \* accept-or-reject decisions so far
    rejects,    \* calls of reject so far
    outcome,    \* history: how the iteration just over ended
    delta,      \* history: logp_p - logp at its decision
    T_before    \* history: the tree as it was when propose was entered

vars == <<G, kind, d, root, k, beta, iters, burn, driver, phases, phase, T, u_new, v_new, u_old,
          v_old, path, logp, pc, iter, tallied, proposals, decisions,
          rejects, outcome, delta, T_before>>

\* What no step of an iteration changes.
config == <<G, kind, d, root, k, beta, iters, burn, driver, phases, phase>>
\* What the calls of propose, accept and reject are counted in, for each
\* call of sample.
counters == <<tallied, proposals, decisions, rejects>>
record == <<u_new, v_new, u_old, v_old, path>>

----------------------------------------------------------------------------
(* Graph library (networkx)                                                *)

Min(S) == CHOOSE x \in S : \A y \in S : x <= y
Max(S) == CHOOSE x \in S : \A y \in S : x >= y

AllEdges(n) == {e \in (1..n) \X (1..n) : e[1] < e[2]}

\* nx.grid_graph([w, h]); node (x, y) is numbered x*h + y + 1.
grid_graph(shape) ==
    LET w == shape[1]
        h == shape[2]
        id(x, y) == x * h + y + 1
    IN  [nodes |-> 1..(w * h),
         edges |-> {<<id(x, y), id(x, y + 1)>> : x \in 0..(w - 1), y \in 0..(h - 2)}
                   \cup {<<id(x, y), id(x + 1, y)>> : x \in 0..(w - 2), y \in 0..(h - 1)}]

has_edge(E, u, v) == {u, v} \in E
add_edge(E, u, v) == E \cup {{u, v}}
remove_edge(E, u, v) == E \ {{u, v}}

neighbors(E, v) == UNION {e \ {v} : e \in {f \in E : v \in f}}
degree(E, v) == Cardinality({e \in E : v \in e})

\* Breadth-first search, one level a call: paths[v] is the path found from
\* the source to v, frontier the nodes found by the last level.  The next
\* level is handed on as the value st, so that it is computed once.
RECURSIVE bfs_paths(_, _)
bfs_paths(E, st) ==
    IF st.frontier = {} THEN st.paths
    ELSE LET next == {w \in UNION {neighbors(E, v) : v \in st.frontier} :
                        w \notin DOMAIN st.paths}
             found == [w \in next |->
                         LET p == Min({v \in st.frontier : w \in neighbors(E, v)})
                         IN  Append(st.paths[p], w)]
         IN  CHOOSE r \in {bfs_paths(E, s) :
                             s \in {[paths |-> st.paths @@ found, frontier |-> next]}} :
                 TRUE

single_source_paths(E, source) ==
    bfs_paths(E, [paths |-> [v \in {source} |-> <<source>>] @@ <<>>,
                  frontier |-> {source}])

\* nx.shortest_path(T, source, target); <<>> stands for NetworkXNoPath.
shortest_path(E, source, target) ==
    LET paths == single_source_paths(E, source)
    IN  IF target \in DOMAIN paths THEN paths[target] ELSE <<>>

\* nx.shortest_path_length(T, source): the reachable nodes and their depth.
shortest_path_length(E, source) ==
    LET paths == single_source_paths(E, source)
    IN  [v \in DOMAIN paths |-> Len(paths[v]) - 1]

\* G.edges() as a list: the edges in increasing order.
RECURSIVE edge_list(_)
edge_list(edges) ==
    IF edges = {} THEN <<>>
    ELSE LET e == CHOOSE x \in edges : \A y \in edges :
                    x[1] < y[1] \/ (x[1] = y[1] /\ x[2] <= y[2])
         IN  <<e>> \o edge_list(edges \ {e})

\* sorted(G.edges(data=True), key=weight): a stable sort by weight.
RECURSIVE sort_by_weight(_, _, _)
sort_by_weight(list, w, classes) ==
    IF classes = {} THEN <<>>
    ELSE LET c == Min(classes)
             same(e) == w[e] = c
         IN  SelectSeq(list, same) \o sort_by_weight(list, w, classes \ {c})

\* Kruskal's algorithm: the edges by increasing weight, each kept when it
\* joins two components (comp is the set of components so far).
RECURSIVE kruskal(_, _, _)
kruskal(list, comp, F) ==
    IF list = <<>> THEN F
    ELSE LET e == Head(list)
             A == CHOOSE c \in comp : e[1] \in c
             B == CHOOSE c \in comp : e[2] \in c
         IN  IF A # B
             THEN kruskal(Tail(list), (comp \ {A, B}) \cup {A \cup B},
                          F \cup {{e[1], e[2]}})
             ELSE kruskal(Tail(list), comp, F)

\* nx.minimum_spanning_tree(G) for the edges of G listed in the order list
\* and weighted by w.
minimum_spanning_tree(nodes, list, w) ==
    kruskal(sort_by_weight(list, w, {w[e] : e \in DOMAIN w}),
            {{v} : v \in nodes}, {})

----------------------------------------------------------------------------
(* Graph predicates used to state properties                               *)

Connected(nodes, E) ==
    nodes # {} /\ DOMAIN single_source_paths(E, Min(nodes)) = nodes

BaseEdges(g) == {{e[1], e[2]} : e \in g.edges}

IsSpanningTree(g, E) ==
    /\ E \subseteq BaseEdges(g)
    /\ Cardinality(E) = Cardinality(g.nodes) - 1
    /\ Connected(g.nodes, E)

----------------------------------------------------------------------------
(* The energies                                                            *)

\* Faulty variant: the sign of the energy lost.
ldst_positive(E, nodes, dd, b) ==
    b * Cardinality({v \in nodes : degree(E, v) >= dd})

ldst(E, nodes, dd, b) ==
    -b * Cardinality({v \in nodes : degree(E, v) >= dd})

bdst(E, r, kk, b) ==
    LET path_len == shortest_path_length(E, r)
    IN  -b * Cardinality({v \in DOMAIN path_len : path_len[v] > kk})

Energy(E) ==
    IF kind = "ldst" THEN ldst(E, G.nodes, d, beta) ELSE bdst(E, root, k, beta)

----------------------------------------------------------------------------
(* STMetropolis                                                            *)

\* Faulty variant: the loop condition negated.
keep_drawing_negated(E, u, v) == ~has_edge(E, u, v)

\* Faulty variant: the loop asks the base graph, which has every edge drawn.
keep_drawing_base_graph(E, u, v) == E = E /\ has_edge(BaseEdges(G), u, v)

\* The condition of propose's resampling loop.
keep_drawing(E, u, v) == has_edge(E, u, v)

\* Faulty variant: randrange(len(T.path) - 2), the last edge of the path is never
\* chosen.
randrange_short(n) == 0..(n - 2)

\* Faulty variant: i = 0, the first edge of the path is always chosen.
randrange_first(n) == IF n > 0 THEN {0} ELSE {}

\* random.randrange(len(T.path) - 1): the values i may take.
randrange(n) == 0..(n - 1)

\* Faulty variant: the old edge is not removed.
swap_edges_keeps_old(E, uo, vo, un, vn) == add_edge(E, un, vn)

\* The end of propose: the old edge leaves the tree, the new one enters.
swap_edges(E, uo, vo, un, vn) == add_edge(remove_edge(E, uo, vo), un, vn)

\* Faulty variant: the roles of the two edges exchanged.
reject_exchanged(E, uo, vo, un, vn) == remove_edge(add_edge(E, un, vn), uo, vo)

\* reject: the old edge is put back, the new one is taken out.
reject(E, uo, vo, un, vn) == remove_edge(add_edge(E, uo, vo), un, vn)

\* Metropolis acceptance: the step is rejected when log(random()) exceeds
\* logp_p - logp.  The draw q >= 1 stands for log(random()) = -q/2, and
\* q = 0 for random() = 0, whose logarithm is below every difference.
rejects_draw(q, logp_p, logp_cur) ==
    q # 0 /\ -q > 2 * (logp_p - logp_cur)

\* The draws on which the step accepts, and those on which it rejects.
accepting_draws(draws, logp_p, logp_cur) ==
    {q \in draws : ~rejects_draw(q, logp_p, logp_cur)}
rejecting_draws(draws, logp_p, logp_cur) ==
    {q \in draws : rejects_draw(q, logp_p, logp_cur)}

\* The edges propose's loop can end on.
new_edge_choices(g, E) == {e \in g.edges : ~keep_drawing(E, e[1], e[2])}

\* The trees one call of propose can leave in place of E.
ProposeOutcomes(g, E) ==
    UNION {LET p == shortest_path(E, e[1], e[2])
           IN  {swap_edges(E, p[i + 1], p[i + 2], e[1], e[2]) :
                    i \in randrange(Len(p) - 1)} :
           e \in new_edge_choices(g, E)}

----------------------------------------------------------------------------
(* Initial states: LDST(G, d, beta) or BDST(G, root, k, beta) built on a   *)
(* base graph, then sample(iters, burn), or the cooling loop of            *)
(* anneal_ldst or anneal_bdst about to start.                              *)

\* LDST(G, d=3, beta=1.) and BDST(G, root=(0,0), k=5, beta=1.): the
\* defaults of the two constructors.  The root (0, 0) is the first node.
LdstDefaults == <<3, 1>>
BdstDefaults == <<1, 5, 1>>
\* LDST(G, beta=10), as ld_maze builds it.
ld_maze_config == <<3, 10>>
\* LDST(G, d=2, beta=10), the endpoint scenario.
EndpointConfig == <<2, 10>>
LdstConfigs == {LdstDefaults, ld_maze_config, EndpointConfig}
BdstConfigs == {BdstDefaults}
\* beta = pm.Uninformative('beta', value=1.) in anneal_ldst and anneal_bdst.
UninformativeBeta == 1
\* anneal_bdst(n, depth): the default depth = 10, which no tree of the 3x3
\* grid exceeds, and depth = 2, which some do.
AnnealDepths == {2, 10}
\* root = ((n-1)/2, (n-1)/2) in anneal_bdst, for odd n.
centre(shape) ==
    LET x == (shape[1] - 1) \div 2
        y == (shape[2] - 1) \div 2
    IN  x * shape[2] + y + 1

\* The draws of random(), which is in [0, 1).
Draws == 0..MaxDraw

\* my_grid_graph(shape) without its random weights, which only choose the
\* seed tree.
my_grid_graph(shape) == grid_graph(shape)

\* A grid cut in two, as image_grid_graph leaves it for a picture with a
\* gap: a square and an edge apart from it.
SplitGrid ==
    LET g == grid_graph(<<3, 2>>)
    IN  [nodes |-> g.nodes, edges |-> g.edges \ {<<3, 5>>, <<4, 6>>}]

Graphs ==
    UNION {{[nodes |-> 1..n, edges |-> E] : E \in SUBSET AllEdges(n)} : n \in 1..MaxNodes}
    \cup {my_grid_graph(GridShape), SplitGrid}

\* The trees minimum_spanning_tree can return for g, over the edge weights.
SeedTrees(g) ==
    LET list == edge_list(g.edges)
    IN  {minimum_spanning_tree(g.nodes, list, w) : w \in [g.edges -> Weights]}

Init ==
    /\ G \in Graphs
    /\ T \in SeedTrees(G)
    /\ iters = MaxIters
    /\ \/ /\ kind = "ldst"
          /\ driver = "sample"
          /\ \E c \in LdstConfigs : d = c[1] /\ beta = c[2]
          /\ root = 0
          /\ k = 0
          /\ burn = iters - 1
       \/ /\ kind = "bdst"
          /\ driver = "sample"
          /\ d = 0
          /\ \E c \in BdstConfigs : root = c[1] /\ k = c[2] /\ beta = c[3]
          /\ burn = 0
       \/ /\ kind = "ldst"
          /\ driver = "anneal"
          /\ G = my_grid_graph(GridShape)
          /\ d = LdstDefaults[1]
          /\ beta = UninformativeBeta
          /\ root = 0
          /\ k = 0
          /\ burn = iters - 1
       \/ /\ kind = "bdst"
          /\ driver = "anneal"
          /\ G = grid_graph(GridShape)
          /\ d = 0
          /\ root = centre(GridShape)
          /\ k \in AnnealDepths
          /\ beta = UninformativeBeta
          /\ burn = 0
    /\ phases = IF driver = "anneal" THEN MaxPhases ELSE 1
    /\ phase = 0
    /\ u_new = 0 /\ v_new = 0 /\ u_old = 0 /\ v_old = 0 /\ path = <<>>
    /\ logp = 0
    /\ pc = IF driver = "anneal" THEN "loop" ELSE "idle"
    /\ iter = 0
    /\ tallied = 0
    /\ proposals = 0
    /\ decisions = 0
    /\ rejects = 0
    /\ outcome = "none"
    /\ delta = 0
    /\ T_before = {}

----------------------------------------------------------------------------
(* One iteration of the sampler: the step reads the energy, calls propose, *)
(* reads the energy again and accepts or rejects.                          *)

\* propose, line 147, on a tree with no edge: T.edges()[0] raises IndexError.
ProposeNoEdge ==
    /\ pc = "idle"
    /\ iter < iters
    /\ T = {}
    /\ logp' = Energy(T)
    /\ proposals' = proposals + 1
    /\ outcome' = "none"
    /\ delta' = 0
    /\ pc' = "IndexError"
    /\ UNCHANGED <<config, T, record, iter, tallied, decisions, rejects, T_before>>

\* propose, line 147: the loop starts from an edge of the tree.
ProposeBegin ==
    /\ pc = "idle"
    /\ iter < iters
    /\ \E e \in T :
         /\ u_new' = Min(e)
         /\ v_new' = Max(e)
    /\ logp' = Energy(T)
    /\ proposals' = proposals + 1
    /\ T_before' = T
    /\ outcome' = "none"
    /\ delta' = 0
    /\ pc' = "select"
    /\ UNCHANGED <<config, T, u_old, v_old, path, iter, tallied, decisions, rejects>>

\* propose, lines 148-149: one pass of the loop draws the edge e of the
\* base graph.
ResampleTo(e) ==
    /\ pc = "select"
    /\ keep_drawing(T, u_new, v_new)
    /\ u_new' = e[1]
    /\ v_new' = e[2]
    /\ UNCHANGED <<config, T, u_old, v_old, path, logp, pc, iter, tallied,
                   proposals, decisions, rejects, outcome, delta, T_before>>

Resample == \E e \in G.edges : ResampleTo(e)

\* A pass of the loop that draws an edge outside the tree.
ResampleOutside == \E e \in G.edges : ~has_edge(T, e[1], e[2]) /\ ResampleTo(e)

\* propose, lines 151-157: the loop is over; an edge of the path between
\* the ends of the new edge is swapped for it.
SwapEdge ==
    /\ pc = "select"
    /\ ~keep_drawing(T, u_new, v_new)
    /\ LET p == shortest_path(T, u_new, v_new)
       IN  /\ path' = p
           /\ \E i \in randrange(Len(p) - 1) :
                /\ u_old' = p[i + 1]
                /\ v_old' = p[i + 2]
                /\ T' = swap_edges(T, p[i + 1], p[i + 2], u_new, v_new)
    /\ pc' = "proposed"
    /\ UNCHANGED <<config, u_new, v_new, logp, iter, tallied, proposals,
                   decisions, rejects, outcome, delta, T_before>>

\* The step keeps the candidate, and the iteration ends: the sample is
\* tallied once burn iterations have gone by.  The attributes propose left
\* on T are dead from here on (the next propose writes each before reading
\* it) and are cleared.
Accept ==
    /\ pc = "proposed"
    /\ \E logp_p \in {Energy(T)} :
         /\ accepting_draws(Draws, logp_p, logp) # {}
         /\ delta' = logp_p - logp
    /\ decisions' = decisions + 1
    /\ outcome' = "accepted"
    /\ iter' = iter + 1
    /\ tallied' = IF iter >= burn THEN tallied + 1 ELSE tallied
    /\ u_new' = 0 /\ v_new' = 0 /\ u_old' = 0 /\ v_old' = 0 /\ path' = <<>>
    /\ logp' = 0
    /\ T_before' = {}
    /\ pc' = "idle"
    /\ UNCHANGED <<config, T, proposals, rejects>>

\* Faulty variant: a rejected iteration is not counted, and is run again.
RejectAndRetry ==
    /\ pc = "proposed"
    /\ \E logp_p \in {Energy(T)} :
         /\ rejecting_draws(Draws, logp_p, logp) # {}
         /\ delta' = logp_p - logp
    /\ T' = reject(T, u_old, v_old, u_new, v_new)
    /\ decisions' = decisions + 1
    /\ rejects' = rejects + 1
    /\ outcome' = "rejected"
    /\ u_new' = 0 /\ v_new' = 0 /\ u_old' = 0 /\ v_old' = 0 /\ path' = <<>>
    /\ logp' = 0
    /\ pc' = "idle"
    /\ UNCHANGED <<config, iter, tallied, proposals, T_before>>

\* The step calls reject, and the iteration ends.
Reject ==
    /\ pc = "proposed"
    /\ \E logp_p \in {Energy(T)} :
         /\ rejecting_draws(Draws, logp_p, logp) # {}
         /\ delta' = logp_p - logp
    /\ T' = reject(T, u_old, v_old, u_new, v_new)
    /\ decisions' = decisions + 1
    /\ rejects' = rejects + 1
    /\ outcome' = "rejected"
    /\ iter' = iter + 1
    /\ tallied' = IF iter >= burn THEN tallied + 1 ELSE tallied
    /\ u_new' = 0 /\ v_new' = 0 /\ u_old' = 0 /\ v_old' = 0 /\ path' = <<>>
    /\ logp' = 0
    /\ pc' = "idle"
    /\ UNCHANGED <<config, proposals, T_before>>

\* sample returns after iters iterations: the caller has the tree, or the
\* cooling loop goes on to its next phase.
Finish ==
    /\ pc = "idle"
    /\ iter = iters
    /\ pc' = IF driver = "anneal" THEN "loop" ELSE "done"
    /\ phase' = IF driver = "anneal" THEN phase + 1 ELSE phase
    /\ UNCHANGED <<G, kind, d, root, k, beta, iters, burn, driver, phases, T,
                   record, logp, iter, counters, outcome, delta, T_before>>

\* anneal_ldst, lines 187-190, and anneal_bdst, lines 222-224: phase i sets
\* beta to i*5 and calls sample on the tree the last phase left.
BeginPhase ==
    /\ pc = "loop"
    /\ phase < phases
    /\ beta' = phase * 5
    /\ iter' = 0
    /\ tallied' = 0 /\ proposals' = 0 /\ decisions' = 0 /\ rejects' = 0
    /\ outcome' = "none"
    /\ delta' = 0
    /\ T_before' = {}
    /\ pc' = "idle"
    /\ UNCHANGED <<G, kind, d, root, k, iters, burn, driver, phases, phase, T,
                   record, logp>>

\* anneal_ldst, line 192, and anneal_bdst, line 227: the phases are over
\* and the tree is returned.
Return ==
    /\ pc = "loop"
    /\ phase = phases
    /\ pc' = "done"
    /\ UNCHANGED <<config, T, record, logp, iter, counters, outcome, delta,
                   T_before>>

Next ==
    \/ BeginPhase
    \/ ProposeNoEdge
    \/ ProposeBegin
    \/ Resample
    \/ SwapEdge
    \/ Accept
    \/ Reject
    \/ Finish
    \/ Return

Spec == Init /\ [][Next]_vars

\* The runs on LDST: sample(iters, burn=iters-1) at beta = 10, as ld_maze
\* runs it and as the endpoint scenario does, and the phases of anneal_ldst.
ScenarioInit ==
    /\ Init
    /\ kind = "ldst"
    /\ \/ driver = "sample" /\ <<d, beta>> \in {ld_maze_config, EndpointConfig}
       \/ driver = "anneal"

\* The sampler does not stop before sample returns, and every edge of the
\* base graph has positive probability at each draw, so a loop that can end
\* on some draw does end.
FairSpec ==
    /\ ScenarioInit
    /\ [][Next]_vars
    /\ WF_vars(Next)
    /\ WF_vars(ResampleOutside)

----------------------------------------------------------------------------
(* Properties                                                              *)

ConnectedBase == Connected(G.nodes, BaseEdges(G))

\* No edge joins a node to itself again once it is taken out: E is a forest.
IsAcyclic(E) ==
    \A e \in E : LET u == Min(e) IN shortest_path(E \ {e}, u, Max(e)) = <<>>

BetweenIterations == pc \in {"idle", "loop", "done"}

\* C1: on a connected base graph, after every completed iteration, accepted
\* or rejected, the working tree has |nodes| - 1 edges, all of them edges of
\* the base graph, touches every node, is connected and has no cycle.
C1_TreeInvariant ==
    (ConnectedBase /\ BetweenIterations /\ (iter >= 1 \/ phase >= 1)) =>
        /\ Cardinality(T) = Cardinality(G.nodes) - 1
        /\ T \subseteq BaseEdges(G)
        /\ (Cardinality(G.nodes) > 1 => UNION T = G.nodes)
        /\ Connected(G.nodes, T)
        /\ IsAcyclic(T)

\* Reached: the run on the 3x3 grid is over, with iterations accepted and
\* rejected behind it.
C1_Witness ==
    /\ G = my_grid_graph(GridShape)
    /\ pc = "done"
    /\ iter = iters
    /\ rejects >= 1
    /\ rejects < decisions

\* C2: propose followed by reject leaves the edge set as it was before
\* propose: the four stored endpoints undo any proposal, and after the step
\* has rejected the tree is the one propose was given.
C2_RejectRestores ==
    /\ pc = "proposed" =>
           /\ reject(T, u_old, v_old, u_new, v_new) = T_before
           /\ reject(T, u_old, v_old, u_new, v_new)
                  = (T \cup {{u_old, v_old}}) \ {{u_new, v_new}}
    /\ (BetweenIterations /\ outcome = "rejected") => T = T_before

\* Reached: a proposal on the grid that changed the tree has been rejected.
C2_Witness ==
    /\ G = my_grid_graph(GridShape)
    /\ pc = "idle"
    /\ outcome = "rejected"
    /\ T = T_before
    /\ iter = 2
    /\ rejects = 2

IsPathIn(E, p, u, v) ==
    /\ Len(p) >= 2
    /\ p[1] = u
    /\ p[Len(p)] = v
    /\ \A i \in 1..(Len(p) - 1) : {p[i], p[i + 1]} \in E
    /\ \A i, j \in 1..Len(p) : p[i] = p[j] => i = j

\* C7: from a spanning tree with an edge of the base graph outside it, the
\* candidate is the tree less e_old plus e_new, where e_new is an edge of
\* the base graph that was not in the tree and e_old is the edge at some
\* index i in [0, len(path) - 2] of the path the tree had between the ends
\* of e_new; so e_old differs from e_new, the two trees differ in exactly
\* these edges, and the candidate is a spanning tree.
C7_ProposeIsEdgeSwap ==
    (pc = "proposed" /\ IsSpanningTree(G, T_before)) =>
        /\ {u_new, v_new} \in BaseEdges(G)
        /\ {u_new, v_new} \notin T_before
        /\ IsPathIn(T_before, path, u_new, v_new)
        /\ \E i \in 0..(Len(path) - 2) :
               u_old = path[i + 1] /\ v_old = path[i + 2]
        /\ {u_old, v_old} \in T_before
        /\ {u_old, v_old} # {u_new, v_new}
        /\ T = (T_before \ {{u_old, v_old}}) \cup {{u_new, v_new}}
        /\ T_before \ T = {{u_old, v_old}}
        /\ T \ T_before = {{u_new, v_new}}
        /\ IsSpanningTree(G, T)
        /\ IsAcyclic(T)

\* Reached: a candidate on the grid whose old edge lies inside a path of
\* five edges or more.
C7_Witness ==
    /\ pc = "proposed"
    /\ IsSpanningTree(G, T_before)
    /\ Len(path) >= 6
    /\ u_old = path[3]
    /\ v_old = path[4]

\* C8: the move is symmetric: whatever tree propose leaves in place of T,
\* one call of propose on that tree can leave T again, by adding the edge
\* that was removed and removing the edge that was added.
C8_MoveIsSymmetric ==
    pc = "proposed" =>
        /\ T \in ProposeOutcomes(G, T_before)
        /\ T_before \in ProposeOutcomes(G, T)
        /\ \E e \in new_edge_choices(G, T) :
               /\ {e[1], e[2]} = {u_old, v_old}
               /\ LET p == shortest_path(T, e[1], e[2])
                  IN  \E i \in randrange(Len(p) - 1) :
                         /\ {p[i + 1], p[i + 2]} = {u_new, v_new}
                         /\ swap_edges(T, p[i + 1], p[i + 2], e[1], e[2]) = T_before

\* Reached: a candidate whose inverse swap removes the last edge of the
\* path it finds.
C8_Witness ==
    /\ pc = "proposed"
    /\ T # T_before
    /\ LET a == Min({u_old, v_old})
           p == shortest_path(T, a, Max({u_old, v_old}))
       IN  Len(p) >= 3 /\ {p[Len(p) - 1], p[Len(p)]} = {u_new, v_new}

\* The energies as the design states them: minus beta times the number of
\* nodes of degree d or more, or of nodes deeper than k below the root.
bounded_degree_energy(E) ==
    -beta * Cardinality({v \in G.nodes : Cardinality({e \in E : v \in e}) >= d})

bounded_depth_energy(E) ==
    LET depth == shortest_path_length(E, root)
    IN  -beta * Cardinality({v \in DOMAIN depth : depth[v] > k})

stated_energy(E) ==
    IF kind = "ldst" THEN bounded_degree_energy(E) ELSE bounded_depth_energy(E)

\* C3: when the candidate's energy is strictly greater than the current
\* tree's, the step accepts whatever the draw is: reject is not called and
\* the candidate is the current tree of the next iteration.
C3_BetterIsAccepted ==
    [][(pc = "proposed" /\ stated_energy(T) > stated_energy(T_before)) =>
           (outcome' = "accepted" /\ rejects' = rejects /\ T' = T)]_vars

\* Reached: an iteration at beta = 10 has ended accepting a candidate of
\* greater energy.
C3_Witness ==
    /\ pc = "idle"
    /\ beta = 10
    /\ outcome = "accepted"
    /\ delta > 0
    /\ rejects = 0
    /\ iter >= 1

\* What holds of the counters of a call of sample in every state.
C9_Counters ==
    /\ proposals = iter + (IF pc \in {"select", "proposed", "IndexError"} THEN 1 ELSE 0)
    /\ decisions = iter
    /\ rejects <= decisions
    /\ iter <= iters
    /\ pc = "done" =>
           /\ proposals = iters
           /\ decisions = iters
           /\ tallied = iters - burn

\* What holds of every step of a call of sample.
C9_SampleStep ==
    /\ pc = "idle" => pc' \in {"select", "IndexError", "done", "loop"}
    /\ pc = "idle" /\ pc' \in {"done", "loop"} => iter = iters /\ T' = T
    /\ pc = "select" => pc' \in {"select", "proposed"}
    /\ pc = "proposed" => pc' = "idle"
    /\ proposals' # proposals =>
           /\ pc = "idle" /\ pc' \in {"select", "IndexError"}
           /\ proposals' = proposals + 1
           /\ decisions' = decisions
    /\ decisions' # decisions =>
           /\ pc = "proposed" /\ pc' = "idle"
           /\ decisions' = decisions + 1
           /\ iter' = iter + 1
           /\ proposals' = proposals
           /\ outcome' \in {"accepted", "rejected"}
           /\ outcome' = "accepted" => T' = T /\ rejects' = rejects
    /\ rejects' # rejects =>
           /\ pc = "proposed"
           /\ outcome' = "rejected"
           /\ rejects' = rejects + 1
           /\ decisions' = decisions + 1
           /\ T' = reject(T, u_old, v_old, u_new, v_new)

\* What holds of every step: a call of sample starts with its counters at
\* zero, and within it each propose is followed by one decision.
C9_Step ==
    /\ pc = "loop" =>
           /\ pc' \in {"idle", "done"}
           /\ pc' = "idle" =>
                  iter' = 0 /\ proposals' = 0 /\ decisions' = 0 /\ T' = T
           /\ pc' = "done" => UNCHANGED <<iter, counters, T>>
    /\ pc # "loop" => C9_SampleStep

\* C9: a run of N iterations goes Idle, Proposed, Accepted or Rejected, Idle:
\* N calls of propose, each followed by one decision before the next, reject
\* only on the proposal just recorded, no iteration run again once decided,
\* and the burn-in iterations run like the others.
C9_IterationProtocol == []C9_Counters /\ [][C9_Step]_vars

\* Reached: a run with a burn-in is over, one sample tallied, a rejection
\* among its iterations.
C9_Witness ==
    /\ pc = "done"
    /\ burn >= 1
    /\ tallied = 1
    /\ proposals = iters
    /\ rejects >= 1

SpanningTrees(g) == {E \in SUBSET BaseEdges(g) : IsSpanningTree(g, E)}

\* For each base graph and each of its spanning trees, the trees one call
\* of propose can leave in its place (@@ makes a table of the function, so
\* that it is computed once).
TreeMoves ==
    [g \in Graphs |->
        [S \in SpanningTrees(g) |-> ProposeOutcomes(g, S)] @@ <<>>] @@ <<>>

\* The trees reachable from those of frontier by calls of propose.
RECURSIVE reachable(_, _, _)
reachable(moves, seen, frontier) ==
    IF frontier = {} THEN seen
    ELSE LET next == (UNION {IF S \in DOMAIN moves THEN moves[S] ELSE {} :
                                S \in frontier}) \ seen
         IN  reachable(moves, seen \cup next, next)

ReachableFrom(g, E) == reachable(TreeMoves[g], {E}, {E})

\* C10: on a connected base graph with an edge outside the seed tree, every
\* spanning tree is reached from the seed tree by calls of propose, and no
\* candidate is one the step cannot accept.
C10_EveryTreeReachable ==
    /\ (pc = "idle" /\ iter = 0 /\ phase = 0 /\ driver = "sample" /\ ConnectedBase
           /\ new_edge_choices(G, T) # {}) =>
           ReachableFrom(G, T) = DOMAIN TreeMoves[G]
    /\ pc = "proposed" =>
           \E logp_p \in {Energy(T)} : accepting_draws(Draws, logp_p, logp) # {}

\* Reached: a seed tree of the 3x3 grid, from which its 192 spanning trees
\* are reached.
C10_Witness ==
    /\ pc = "idle"
    /\ iter = 0
    /\ phase = 0
    /\ driver = "sample"
    /\ ConnectedBase
    /\ G = my_grid_graph(GridShape)
    /\ new_edge_choices(G, T) # {}
    /\ Cardinality(ReachableFrom(G, T)) = 192

\* The endpoint scenario: LDST on the 3x3 grid with d = 2 and beta = 10,
\* one call of sample, burn = iters - 1.
GridScenario ==
    /\ G = my_grid_graph(GridShape)
    /\ kind = "ldst"
    /\ driver = "sample"
    /\ d = 2
    /\ beta = 10
    /\ burn = iters - 1

\* np.mean(np.array(T.degree().values()) == 2), line 191, as the pairs of
\* numerator and denominator it can report: where values() is a list, the
\* share of the nodes of degree 2; where it is a view (Python 3), the array
\* has no dimension, the comparison is False and the mean is 0.0.
degree_2_fraction(E, nodes) ==
    {<<Cardinality({v \in nodes : degree(E, v) = 2}), Cardinality(nodes)>>,
     <<0, 1>>}

InUnitInterval(f) == f[2] > 0 /\ 0 <= f[1] /\ f[1] <= f[2]

\* C4: in the endpoint scenario the run ends, every resampling loop of
\* propose having ended, and the tree returned is a spanning tree of 8 edges
\* whose reported degree fraction is in [0, 1].
C4_GridRunEnds ==
    GridScenario ~>
        (/\ pc = "done"
         /\ iter = iters
         /\ IsSpanningTree(G, T)
         /\ IsAcyclic(T)
         /\ Cardinality(T) = 8
         /\ \A f \in degree_2_fraction(T, G.nodes) : InUnitInterval(f))

\* Reached: the run of the endpoint scenario is over, a rejection among its
\* iterations.
C4_Witness ==
    /\ GridScenario
    /\ pc = "done"
    /\ iter = iters
    /\ tallied = 1
    /\ rejects >= 1
    /\ Cardinality(T) = 8

\* C5: when the base graph has no edge outside the tree, propose does not
\* loop for ever: it gives up with ProposalExhaustedError, or ends the
\* iteration without changing the tree.
C5_ProposeGivesUp ==
    (pc = "select" /\ new_edge_choices(G, T) = {}) ~>
        (pc = "ProposalExhaustedError" \/ (pc = "idle" /\ T = T_before))

\* C6: on a disconnected base graph construction fails with
\* InvalidGraphError before sampling starts, so that no iteration is ever
\* proposed and decided on a spanning forest of a disconnected graph.
C6_DisconnectedIsRefused ==
    ~ConnectedBase => decisions = 0

====
